---- MODULE Spec2Model ----
(***************************************************************************)
(* State-machine model of PinkyPromise (Promise/A+ implementation).        *)
(* Promises are numbered in allocation order; every synchronous unit of    *)
(* work (a public call, a callback of a foreign thenable, one microtask)   *)
(* is one action.                                                          *)
(***************************************************************************)
EXTENDS Integers, Sequences, FiniteSets, TLC

VARIABLES
  st,      \* st[i]  : #state of promise i, [status, val]
  fl,      \* fl[i]  : #fulfilledListeners of promise i
  rl,      \* rl[i]  : #rejectedListeners of promise i
  mq,      \* the host's microtask queue (queueMicrotask), FIFO
  lat,     \* lat[k] : the `called` latch of the k-th then.call of a foreign thenable
  source,  \* source[i] : the promise whose then() created promise i, 0 for a constructor call
  args,    \* args[i]   : the <<onfulfilled, onrejected>> that then() call was given
  calls,   \* calls[i]  : the settle calls (#resolve / #reject) made on promise i from outside
  runs,    \* runs[i]   : how often the listeners registered by the then() that created i ran
  invoked, \* invoked[k] : what the foreign thenable did with the callbacks of lat[k]
  caught,  \* the promises returned by catch()
  late,    \* the promise returned by a then() of the last unit of work that pushed
           \* its listeners on a settled source, 0 if there was none
  exc      \* what the last unit of work threw to its caller, NoExc if it returned

vars == <<st, fl, rl, mq, lat, source, args, calls, runs, invoked, caught, late, exc>>

progvars == <<st, fl, rl, mq, lat>>

----------------------------------------------------------------------------
(* Bounds *)

MaxP == 3        \* promises allocated in one behaviour of Spec
MaxLatch == 1    \* then.call invocations on foreign thenables in one behaviour of Spec
MaxUnpackP == 2      \* promises allocated in one behaviour of SpecUnpack
MaxUnpackLatch == 2  \* then.call invocations in one behaviour of SpecUnpack
MaxFailP == 1        \* promises allocated in one behaviour of SpecFail
MaxFailLatch == 2    \* then.call invocations in one behaviour of SpecFail
MaxContainP == 2     \* promises allocated in one behaviour of SpecContain
MaxContainLatch == 1 \* then.call invocations in one behaviour of SpecContain
MaxLiveP == 3        \* promises allocated in one behaviour of SpecLive
MaxReactP == 3       \* promises allocated in one behaviour of SpecReact
MaxAdoptP == 3       \* promises allocated in one behaviour of SpecAdopt
MaxAdoptLatch == 2   \* then.call invocations in one behaviour of SpecAdopt
MaxCycleP == 4       \* promises allocated in one behaviour of SpecCycle

----------------------------------------------------------------------------
(* JavaScript values *)

Undef == [t |-> "undef", v |-> 0]
Plain(n) == [t |-> "plain", v |-> n]
P(i) == [t |-> "P", v |-> i]              \* a PinkyPromise instance
T(k) == [t |-> "T", v |-> k]              \* a foreign thenable, behaviour Scripts[k]
GetterThrows == [t |-> "G", v |-> 0]      \* object whose `then` getter throws ThrownErr
NoThenObject == [t |-> "O", v |-> 0]      \* object whose `then` is not callable
CycleErr == [t |-> "err", v |-> 0]        \* TypeError("Chaining cycle detected for promise")
ThrownErr == [t |-> "err", v |-> 1]       \* an error thrown by user code
TypeErr == [t |-> "err", v |-> 2]         \* TypeError(`${executor} is not a function`)
NoExc == [t |-> "none", v |-> 0]          \* no exception

F(v) == [k |-> "f", v |-> v]
R(v) == [k |-> "r", v |-> v]

\* What a foreign thenable's then(f, r) does synchronously: the callbacks it
\* invokes, in order, and whether it throws ThrownErr afterwards.
Scripts ==
  << [calls |-> <<>>,                      throws |-> FALSE],
     [calls |-> <<F(Plain(1))>>,           throws |-> FALSE],
     [calls |-> <<R(Plain(2))>>,           throws |-> FALSE],
     [calls |-> <<F(Plain(1)), R(Plain(2)), F(Plain(2))>>, throws |-> FALSE],
     [calls |-> <<R(Plain(2)), F(Plain(1))>>, throws |-> FALSE],
     [calls |-> <<>>,                      throws |-> TRUE],
     [calls |-> <<F(Plain(1))>>,           throws |-> TRUE],
     [calls |-> <<F(T(1))>>,               throws |-> TRUE],
     [calls |-> <<F(T(1)), R(Plain(3))>>,  throws |-> FALSE] >>

Thenables == {T(k) : k \in 1..Len(Scripts)}

\* What is passed to the constructor: whether it is callable, whether
\* `${executor}` can be evaluated, the settle calls it makes, in order, and
\* whether it throws ThrownErr afterwards.
Executors ==
  << [callable |-> FALSE, str |-> TRUE,  calls |-> <<>>,            throws |-> FALSE],
     [callable |-> FALSE, str |-> FALSE, calls |-> <<>>,            throws |-> FALSE],
     [callable |-> TRUE,  str |-> TRUE,  calls |-> <<>>,            throws |-> TRUE],
     [callable |-> TRUE,  str |-> TRUE,  calls |-> <<F(Plain(1))>>, throws |-> TRUE],
     [callable |-> TRUE,  str |-> TRUE,  calls |-> <<R(Plain(2))>>, throws |-> TRUE],
     [callable |-> TRUE,  str |-> TRUE,  calls |-> <<F(T(1))>>,     throws |-> TRUE] >>

PendingState == [status |-> "pending", val |-> Undef]
Fulfilled(v) == [status |-> "fulfilled", val |-> v]
Rejected(r) == [status |-> "rejected", val |-> r]

\* then() callbacks
None == [c |-> "none", v |-> Undef]             \* omitted, null or not callable
Ret(v) == [c |-> "ret", v |-> v]                \* () => v
Throw(e) == [c |-> "throw", v |-> e]            \* () => { throw e }
Self == [c |-> "self", v |-> Undef]             \* () => the promise then() returned
UnpackInto(p) == [c |-> "unpackInto", v |-> P(p)]   \* (val) => #unpack(p, val)
RejectInto(p) == [c |-> "rejectInto", v |-> P(p)]   \* (reason) => #transition(p, rejected)

\* n saturates at 2 (none, one, several); held: user code holds the settle
\* functions; threw: the executor threw
NoCalls == [n |-> 0, first |-> F(Undef), held |-> FALSE, threw |-> FALSE]

NoRuns == [nF |-> 0, nR |-> 0, arg |-> Undef]

\* seen: a callback was invoked; pend: the target was pending then; first: that
\* first invocation, kept when the target was pending; late: a later
\* invocation changed the state of the program
NoInvocations == [seen |-> FALSE, first |-> F(Undef), pend |-> FALSE, late |-> FALSE]

----------------------------------------------------------------------------
(* The library, as functions on the whole state S *)

Cur == [st |-> st, fl |-> fl, rl |-> rl, mq |-> mq, lat |-> lat,
        source |-> source, args |-> args, calls |-> calls, runs |-> runs,
        invoked |-> invoked, caught |-> caught, late |-> 0, exc |-> NoExc]

Prog(S) == <<S.st, S.fl, S.rl, S.mq, S.lat>>

Task(i, l) == [l |-> l, src |-> i]

RECURSIVE Unpack(_, _, _)
RECURSIVE Script(_, _, _, _)
RECURSIVE Microtask(_)
RECURSIVE Executor(_, _, _, _)

\* #notify that forgets to clear the listener arrays
NotifyNoClear(S, i) ==
  IF S.st[i].status = "pending" THEN S
  ELSE LET ls == IF S.st[i].status = "fulfilled" THEN S.fl[i] ELSE S.rl[i]
       IN [S EXCEPT !.mq = @ \o [k \in 1..Len(ls) |-> Task(i, ls[k])]]

\* #notify that clears only the array it scheduled
NotifyKeepOther(S, i) ==
  IF S.st[i].status = "pending" THEN S
  ELSE LET ls == IF S.st[i].status = "fulfilled" THEN S.fl[i] ELSE S.rl[i]
           N == [S EXCEPT !.mq = @ \o [k \in 1..Len(ls) |-> Task(i, ls[k])]]
       IN IF S.st[i].status = "fulfilled"
          THEN [N EXCEPT !.fl[i] = <<>>]
          ELSE [N EXCEPT !.rl[i] = <<>>]

\* #notify that clears the listener arrays without scheduling anything
NotifyNoSchedule(S, i) ==
  IF S.st[i].status = "pending" THEN S
  ELSE [S EXCEPT !.fl[i] = <<>>, !.rl[i] = <<>>]

\* #notify that schedules the listeners of both arrays
NotifyBothKinds(S, i) ==
  IF S.st[i].status = "pending" THEN S
  ELSE [S EXCEPT !.mq = @ \o [k \in 1..Len(S.fl[i]) |-> Task(i, S.fl[i][k])]
                         \o [k \in 1..Len(S.rl[i]) |-> Task(i, S.rl[i][k])],
                 !.fl[i] = <<>>,
                 !.rl[i] = <<>>]

\* part_000:80-108
Notify(S, i) ==
  IF S.st[i].status = "pending" THEN S
  ELSE LET ls == IF S.st[i].status = "fulfilled" THEN S.fl[i] ELSE S.rl[i]
       IN [S EXCEPT !.mq = @ \o [k \in 1..Len(ls) |-> Task(i, ls[k])],
                    !.fl[i] = <<>>,
                    !.rl[i] = <<>>]

\* #transition without the pending check
TransitionNoGuard(S, i, state) == Notify([S EXCEPT !.st[i] = state], i)

\* part_000:115-124
Transition(S, i, state) ==
  IF S.st[i].status = "pending"
  THEN Notify([S EXCEPT !.st[i] = state], i)
  ELSE S

\* field initialisers, part_000:61-63
New(S, src, a) ==
  [S EXCEPT !.st = Append(@, PendingState),
            !.fl = Append(@, <<>>),
            !.rl = Append(@, <<>>),
            !.source = Append(@, src),
            !.args = Append(@, a),
            !.calls = Append(@, NoCalls),
            !.runs = Append(@, NoRuns)]

\* then() that pushes its listeners at the front of the arrays
ThenUnshift(S, i, onfulfilled, onrejected) ==
  LET S1 == New(S, i, <<onfulfilled, onrejected>>)
      output == Len(S1.st)
      lf == IF onfulfilled.c # "none"
            THEN [k |-> "run", out |-> output, cb |-> onfulfilled, kind |-> "F"]
            ELSE [k |-> "resolve", out |-> output, cb |-> None, kind |-> "F"]
      lr == IF onrejected.c # "none"
            THEN [k |-> "run", out |-> output, cb |-> onrejected, kind |-> "R"]
            ELSE [k |-> "reject", out |-> output, cb |-> None, kind |-> "R"]
  IN Notify([S1 EXCEPT !.fl[i] = <<lf>> \o @, !.rl[i] = <<lr>> \o @], i)

\* then() whose rejection pass-through is the resolve function
ThenPassResolve(S, i, onfulfilled, onrejected) ==
  LET S1 == New(S, i, <<onfulfilled, onrejected>>)
      output == Len(S1.st)
      lf == IF onfulfilled.c # "none"
            THEN [k |-> "run", out |-> output, cb |-> onfulfilled, kind |-> "F"]
            ELSE [k |-> "resolve", out |-> output, cb |-> None, kind |-> "F"]
      lr == IF onrejected.c # "none"
            THEN [k |-> "run", out |-> output, cb |-> onrejected, kind |-> "R"]
            ELSE [k |-> "resolve", out |-> output, cb |-> None, kind |-> "R"]
  IN Notify([S1 EXCEPT !.fl[i] = Append(@, lf), !.rl[i] = Append(@, lr)], i)

\* then() that runs the reaction at once when the source is already settled
ThenInline(S, i, onfulfilled, onrejected) ==
  LET S1 == New(S, i, <<onfulfilled, onrejected>>)
      output == Len(S1.st)
      lf == IF onfulfilled.c # "none"
            THEN [k |-> "run", out |-> output, cb |-> onfulfilled, kind |-> "F"]
            ELSE [k |-> "resolve", out |-> output, cb |-> None, kind |-> "F"]
      lr == IF onrejected.c # "none"
            THEN [k |-> "run", out |-> output, cb |-> onrejected, kind |-> "R"]
            ELSE [k |-> "reject", out |-> output, cb |-> None, kind |-> "R"]
      S2 == [S1 EXCEPT !.fl[i] = Append(@, lf), !.rl[i] = Append(@, lr)]
  IN IF S2.st[i].status = "pending" THEN S2
     ELSE LET l == IF S2.st[i].status = "fulfilled" THEN lf ELSE lr
              S3 == Microtask([S2 EXCEPT !.mq = <<Task(i, l)>>, !.fl[i] = <<>>, !.rl[i] = <<>>])
          IN [S3 EXCEPT !.mq = S.mq \o @]

\* then() without the that.#notify() of part_000:283
ThenNoNotify(S, i, onfulfilled, onrejected) ==
  LET S1 == New(S, i, <<onfulfilled, onrejected>>)
      output == Len(S1.st)
      lf == IF onfulfilled.c # "none"
            THEN [k |-> "run", out |-> output, cb |-> onfulfilled, kind |-> "F"]
            ELSE [k |-> "resolve", out |-> output, cb |-> None, kind |-> "F"]
      lr == IF onrejected.c # "none"
            THEN [k |-> "run", out |-> output, cb |-> onrejected, kind |-> "R"]
            ELSE [k |-> "reject", out |-> output, cb |-> None, kind |-> "R"]
  IN [S1 EXCEPT !.fl[i] = Append(@, lf), !.rl[i] = Append(@, lr)]

\* part_000:252-287
Then(S, i, onfulfilled, onrejected) ==
  LET S1 == New(S, i, <<onfulfilled, onrejected>>)
      output == Len(S1.st)
      lf == IF onfulfilled.c # "none"
            THEN [k |-> "run", out |-> output, cb |-> onfulfilled, kind |-> "F"]
            ELSE [k |-> "resolve", out |-> output, cb |-> None, kind |-> "F"]
      lr == IF onrejected.c # "none"
            THEN [k |-> "run", out |-> output, cb |-> onrejected, kind |-> "R"]
            ELSE [k |-> "reject", out |-> output, cb |-> None, kind |-> "R"]
      S2 == [S1 EXCEPT !.fl[i] = Append(@, lf), !.rl[i] = Append(@, lr),
                       !.late = IF S.st[i].status # "pending" THEN output ELSE @]
  IN Notify(S2, i)

\* the first callback fulfils with its argument instead of unpacking it
CallbackShallow(S, k, call) ==
  IF S.lat[k].called THEN S
  ELSE LET S1 == [S EXCEPT !.lat[k].called = TRUE]
       IN IF call.k = "f"
          THEN Transition(S1, S1.lat[k].target, Fulfilled(call.v))
          ELSE Transition(S1, S1.lat[k].target, Rejected(call.v))

\* the two callbacks without the `called` check
CallbackNoLatch(S, k, call) ==
  LET S1 == [S EXCEPT !.lat[k].called = TRUE]
  IN IF call.k = "f"
     THEN Unpack(S1, S1.lat[k].target, call.v)
     ELSE Transition(S1, S1.lat[k].target, Rejected(call.v))

\* The two one-shot callbacks handed to a foreign then, part_000:178-192
Callback(S, k, call) ==
  IF S.lat[k].called THEN S
  ELSE LET S1 == [S EXCEPT !.lat[k].called = TRUE]
       IN IF call.k = "f"
          THEN Unpack(S1, S1.lat[k].target, call.v)
          ELSE Transition(S1, S1.lat[k].target, Rejected(call.v))

\* The foreign thenable invokes one of the two callbacks of lat[k]
Invoke(S, k, call) ==
  LET N == Callback(S, k, call)
      pend == S.st[S.lat[k].target].status = "pending"
  IN IF ~S.invoked[k].seen
     THEN [N EXCEPT !.invoked[k] =
             [seen |-> TRUE, pend |-> pend, late |-> FALSE,
              first |-> IF pend THEN call ELSE F(Undef)]]
     ELSE [N EXCEPT !.invoked[k].late = @ \/ Prog(N) # Prog(S)]

\* The synchronous part of then.call(value, f, r)
Script(S, k, cs, n) ==
  IF n > Len(cs) THEN S
  ELSE Script(Invoke(S, k, cs[n]), k, cs, n + 1)

\* #unpack without the Object.is(value, pinkyPromise) check
UnpackNoCycle(S, p, value) ==
  IF S.st[p].status # "pending" THEN S
  ELSE IF value.t = "P" THEN Then(S, value.v, UnpackInto(p), RejectInto(p))
  ELSE IF value.t = "G" THEN Transition(S, p, Rejected(ThrownErr))
  ELSE IF value.t = "T" THEN
    LET k == Len(S.lat) + 1
        S1 == [S EXCEPT !.lat = Append(@, [target |-> p, called |-> FALSE]),
                        !.invoked = Append(@, NoInvocations)]
        S2 == Script(S1, k, Scripts[value.v].calls, 1)
    IN IF Scripts[value.v].throws /\ ~S2.lat[k].called
       THEN Transition([S2 EXCEPT !.lat[k].called = TRUE], p, Rejected(ThrownErr))
       ELSE S2
  ELSE Transition(S, p, Fulfilled(value))

\* #unpack without the instanceof PinkyPromise branch: its own promises go
\* through the generic thenable test and are fulfilled as plain values
UnpackNoOwn(S, p, value) ==
  IF S.st[p].status # "pending" THEN S
  ELSE IF value = P(p) THEN Transition(S, p, Rejected(CycleErr))
  ELSE IF value.t = "G" THEN Transition(S, p, Rejected(ThrownErr))
  ELSE IF value.t = "T" THEN
    LET k == Len(S.lat) + 1
        S1 == [S EXCEPT !.lat = Append(@, [target |-> p, called |-> FALSE]),
                        !.invoked = Append(@, NoInvocations)]
        S2 == Script(S1, k, Scripts[value.v].calls, 1)
    IN IF Scripts[value.v].throws /\ ~S2.lat[k].called
       THEN Transition([S2 EXCEPT !.lat[k].called = TRUE], p, Rejected(ThrownErr))
       ELSE S2
  ELSE Transition(S, p, Fulfilled(value))

\* #unpack without the else branch of part_000:205-207
UnpackNoElse(S, p, value) ==
  IF S.st[p].status # "pending" THEN S
  ELSE IF value = P(p) THEN Transition(S, p, Rejected(CycleErr))
  ELSE IF value.t = "P" THEN Then(S, value.v, UnpackInto(p), RejectInto(p))
  ELSE IF value.t = "G" THEN Transition(S, p, Rejected(ThrownErr))
  ELSE IF value.t = "T" THEN
    LET k == Len(S.lat) + 1
        S1 == [S EXCEPT !.lat = Append(@, [target |-> p, called |-> FALSE]),
                        !.invoked = Append(@, NoInvocations)]
        S2 == Script(S1, k, Scripts[value.v].calls, 1)
    IN IF Scripts[value.v].throws /\ ~S2.lat[k].called
       THEN Transition([S2 EXCEPT !.lat[k].called = TRUE], p, Rejected(ThrownErr))
       ELSE S2
  ELSE IF value.t = "O" THEN S
  ELSE Transition(S, p, Fulfilled(value))

\* #unpack that reads value.then outside the try block
UnpackGetterEscapes(S, p, value) ==
  IF S.st[p].status # "pending" THEN S
  ELSE IF value = P(p) THEN Transition(S, p, Rejected(CycleErr))
  ELSE IF value.t = "P" THEN Then(S, value.v, UnpackInto(p), RejectInto(p))
  ELSE IF value.t = "G" THEN [S EXCEPT !.exc = ThrownErr]
  ELSE IF value.t = "T" THEN
    LET k == Len(S.lat) + 1
        S1 == [S EXCEPT !.lat = Append(@, [target |-> p, called |-> FALSE]),
                        !.invoked = Append(@, NoInvocations)]
        S2 == Script(S1, k, Scripts[value.v].calls, 1)
    IN IF Scripts[value.v].throws /\ ~S2.lat[k].called
       THEN Transition([S2 EXCEPT !.lat[k].called = TRUE], p, Rejected(ThrownErr))
       ELSE S2
  ELSE Transition(S, p, Fulfilled(value))

\* #unpack whose catch around then.call does not test `called`
UnpackCatchNoLatch(S, p, value) ==
  IF S.st[p].status # "pending" THEN S
  ELSE IF value = P(p) THEN Transition(S, p, Rejected(CycleErr))
  ELSE IF value.t = "P" THEN Then(S, value.v, UnpackInto(p), RejectInto(p))
  ELSE IF value.t = "G" THEN Transition(S, p, Rejected(ThrownErr))
  ELSE IF value.t = "T" THEN
    LET k == Len(S.lat) + 1
        S1 == [S EXCEPT !.lat = Append(@, [target |-> p, called |-> FALSE]),
                        !.invoked = Append(@, NoInvocations)]
        S2 == Script(S1, k, Scripts[value.v].calls, 1)
    IN IF Scripts[value.v].throws
       THEN Transition([S2 EXCEPT !.lat[k].called = TRUE], p, Rejected(ThrownErr))
       ELSE S2
  ELSE Transition(S, p, Fulfilled(value))

\* part_000:130-211
Unpack(S, p, value) ==
  IF S.st[p].status # "pending" THEN S
  ELSE IF value = P(p) THEN Transition(S, p, Rejected(CycleErr))
  ELSE IF value.t = "P" THEN Then(S, value.v, UnpackInto(p), RejectInto(p))
  ELSE IF value.t = "G" THEN Transition(S, p, Rejected(ThrownErr))
  ELSE IF value.t = "T" THEN
    LET k == Len(S.lat) + 1
        S1 == [S EXCEPT !.lat = Append(@, [target |-> p, called |-> FALSE]),
                        !.invoked = Append(@, NoInvocations)]
        S2 == Script(S1, k, Scripts[value.v].calls, 1)
    IN IF Scripts[value.v].throws /\ ~S2.lat[k].called
       THEN Transition([S2 EXCEPT !.lat[k].called = TRUE], p, Rejected(ThrownErr))
       ELSE S2
  ELSE Transition(S, p, Fulfilled(value))

\* #run that fulfils with the callback's result instead of unpacking it
RunNoUnpack(S, value, promise, callback) ==
  CASE callback.c = "ret" -> Transition(S, promise, Fulfilled(callback.v))
    [] callback.c = "self" -> Transition(S, promise, Fulfilled(P(promise)))
    [] callback.c = "throw" -> Transition(S, promise, Rejected(callback.v))
    [] callback.c = "unpackInto" ->
         Transition(Unpack(S, callback.v.v, value), promise, Fulfilled(Undef))
    [] callback.c = "rejectInto" ->
         Transition(Transition(S, callback.v.v, Rejected(value)), promise, Fulfilled(Undef))

\* #run without the try/catch around the callback
RunNoCatch(S, value, promise, callback) ==
  CASE callback.c = "ret" -> Unpack(S, promise, callback.v)
    [] callback.c = "self" -> Unpack(S, promise, P(promise))
    [] callback.c = "throw" -> [S EXCEPT !.exc = callback.v]
    [] callback.c = "unpackInto" ->
         Unpack(Unpack(S, callback.v.v, value), promise, Undef)
    [] callback.c = "rejectInto" ->
         Unpack(Transition(S, callback.v.v, Rejected(value)), promise, Undef)

\* part_000:216-232
Run(S, value, promise, callback) ==
  CASE callback.c = "ret" -> Unpack(S, promise, callback.v)
    [] callback.c = "self" -> Unpack(S, promise, P(promise))
    [] callback.c = "throw" -> Transition(S, promise, Rejected(callback.v))
    [] callback.c = "unpackInto" ->
         Unpack(Unpack(S, callback.v.v, value), promise, Undef)
    [] callback.c = "rejectInto" ->
         Unpack(Transition(S, callback.v.v, Rejected(value)), promise, Undef)

\* part_000:239-242
Resolve(S, i, value) == Unpack(S, i, value)

\* #reject that follows a reason that is a promise or an object
RejectFollows(S, i, reason) ==
  IF reason.t \in {"P", "T", "G"}
  THEN Unpack(S, i, reason)
  ELSE Transition(S, i, Rejected(reason))

\* part_000:247-250
Reject(S, i, reason) == Transition(S, i, Rejected(reason))

\* A listener, as pushed by then(): part_000:266-281
Listener(S, l, arg) ==
  CASE l.k = "run" -> Run(S, arg, l.out, l.cb)
    [] l.k = "resolve" -> Resolve(S, l.out, arg)
    [] l.k = "reject" -> Reject(S, l.out, arg)

\* a reaction whose callback throws takes the reactions queued behind it down
MicrotaskThrowStops(S) ==
  LET t == Head(S.mq)
      arg == S.st[t.src].val
      o == t.l.out
      S1 == [S EXCEPT !.mq = IF t.l.cb.c = "throw" THEN <<>> ELSE Tail(@),
                      !.runs[o] = IF t.l.kind = "F"
                                  THEN [@ EXCEPT !.nF = @ + 1, !.arg = arg]
                                  ELSE [@ EXCEPT !.nR = @ + 1, !.arg = arg]]
  IN Listener(S1, t.l, arg)

\* a host that drops the microtask instead of running it
MicrotaskDrops(S) == [S EXCEPT !.mq = Tail(@)]

\* The microtask queued by #notify: part_000:86-88, 94-98
Microtask(S) ==
  LET t == Head(S.mq)
      arg == S.st[t.src].val
      o == t.l.out
      S1 == [S EXCEPT !.mq = Tail(@),
                      !.runs[o] = IF t.l.kind = "F"
                                  THEN [@ EXCEPT !.nF = @ + 1, !.arg = arg]
                                  ELSE [@ EXCEPT !.nR = @ + 1, !.arg = arg]]
  IN Listener(S1, t.l, arg)

\* a settle call made through the functions the executor received
Logged(S, i, c) ==
  [S EXCEPT !.calls[i] = IF @.n = 0 THEN [@ EXCEPT !.n = 1, !.first = c]
                         ELSE [@ EXCEPT !.n = 2]]

\* catch() that passes its callback as onfulfilled
CatchSwapped(S, i, onrejected) ==
  LET N == Then(S, i, onrejected, None)
  IN [N EXCEPT !.caught = @ \cup {Len(N.st)}]

\* part_000:295-302
Catch(S, i, onrejected) ==
  LET N == Then(S, i, None, onrejected)
  IN [N EXCEPT !.caught = @ \cup {Len(N.st)}]

\* The settle calls the executor makes before it returns or throws
Executor(S, p, cs, n) ==
  IF n > Len(cs) THEN S
  ELSE LET S1 == IF cs[n].k = "f" THEN Resolve(S, p, cs[n].v) ELSE Reject(S, p, cs[n].v)
       IN Executor(Logged(S1, p, cs[n]), p, cs, n + 1)

\* the constructor without the try/catch around the executor
ConstructNoCatch(S, ex) ==
  IF ~ex.callable
  THEN [S EXCEPT !.exc = IF ex.str THEN TypeErr ELSE ThrownErr]
  ELSE LET S1 == New(S, 0, <<None, None>>)
           p == Len(S1.st)
           S2 == Executor(S1, p, ex.calls, 1)
       IN IF ex.throws
          THEN [S2 EXCEPT !.calls[p].threw = TRUE, !.exc = ThrownErr]
          ELSE S2

\* new PinkyPromise(executor), part_000:65-75
Construct(S, ex) ==
  IF ~ex.callable
  THEN [S EXCEPT !.exc = IF ex.str THEN TypeErr ELSE ThrownErr]
  ELSE LET S1 == New(S, 0, <<None, None>>)
           p == Len(S1.st)
           S2 == Executor(S1, p, ex.calls, 1)
       IN IF ex.throws
          THEN [Reject(S2, p, ThrownErr) EXCEPT !.calls[p].threw = TRUE]
          ELSE S2

\* the adapter's deferred(): new PinkyPromise((res, rej) => { resolve = res; reject = rej })
Deferred(S) ==
  LET S1 == New(S, 0, <<None, None>>)
  IN [S1 EXCEPT !.calls[Len(S1.st)].held = TRUE]

\* part_000:48-50
StaticResolve(S, value) ==
  LET S1 == New(S, 0, <<None, None>>)
  IN Logged(Resolve(S1, Len(S1.st), value), Len(S1.st), F(value))

\* part_000:57-59
StaticReject(S, reason) ==
  LET S1 == New(S, 0, <<None, None>>)
  IN Logged(Reject(S1, Len(S1.st), reason), Len(S1.st), R(reason))

----------------------------------------------------------------------------
(* Inputs *)

\* The promise #unpack gets from value.then(...) (part_000:146) is dropped at
\* once: user code never holds it.
Visible(i) == i \in 1..Len(st) /\ args[i][1].c # "unpackInto"

Promises == {P(i) : i \in {j \in 1..Len(st) : Visible(j)}}

\* the chaining machine
Values == {Plain(1)} \cup Promises
Reasons == {Plain(2)}
CallbackCalls == {F(Plain(1)), R(Plain(2))}
Callbacks == {Self, Ret(T(1))} \cup {Ret(v) : v \in Promises}
ThenArgs == {<<None, None>>, <<None, Ret(Plain(1))>>, <<Ret(Plain(1)), None>>}
            \cup {<<c, c>> : c \in Callbacks}

\* the resolution procedure
UnpackValues == {Plain(1), T(1), T(4), T(5), T(9)} \cup Promises
UnpackCallbackCalls == {F(Plain(1)), F(T(1)), R(Plain(2))}
UnpackThenArgs == {<<None, None>>}

\* settling: constructor, plain values, reasons, failing thenables
FailExecutors == 1..Len(Executors)
FailValues == {Undef, Plain(1), NoThenObject, GetterThrows, T(6), T(7), T(8)} \cup Promises
FailReasons == {Plain(2), T(2), GetterThrows} \cup Promises

\* every operation, with user code that fails
ContainValues == {GetterThrows, T(6)} \cup Promises
ContainThenArgs == {<<Throw(ThrownErr), Throw(ThrownErr)>>, <<Ret(GetterThrows), Self>>}

\* reactions that allocate nothing when they run
LiveThenArgs == {<<None, None>>, <<Ret(Plain(1)), Throw(ThrownErr)>>}

\* reactions: throwing callbacks, catch
ReactThenArgs == {<<Throw(ThrownErr), None>>, <<None, Throw(ThrownErr)>>, <<None, Ret(Plain(1))>>}
ReactCatchArgs == {None, Ret(Plain(1)), Throw(ThrownErr)}

\* adoption: promises and thenables as values, nested thenables
AdoptValues == {T(1)} \cup Promises
AdoptCallbackCalls == {F(Plain(1)), F(T(1))}

----------------------------------------------------------------------------
(* Actions *)

\* the state after the call is N
Becomes(S) ==
  \E N \in {S} :
    /\ st' = N.st /\ fl' = N.fl /\ rl' = N.rl /\ mq' = N.mq /\ lat' = N.lat
    /\ source' = N.source /\ args' = N.args /\ calls' = N.calls /\ runs' = N.runs
    /\ invoked' = N.invoked /\ caught' = N.caught /\ late' = N.late /\ exc' = N.exc

DeferredAct == Becomes(Deferred(Cur))

StaticResolveAct(v) == Becomes(StaticResolve(Cur, v))

StaticRejectAct(r) == Becomes(StaticReject(Cur, r))

\* user code calls the resolve function the executor of promise i received
ResolveAct(i, v) ==
  /\ i \in 1..Len(st) /\ calls[i].held
  /\ Becomes(Logged(Resolve(Cur, i, v), i, F(v)))

\* user code calls the reject function the executor of promise i received
RejectAct(i, r) ==
  /\ i \in 1..Len(st) /\ calls[i].held
  /\ Becomes(Logged(Reject(Cur, i, r), i, R(r)))

ThenAct(i, a) ==
  /\ Visible(i)
  /\ Becomes(Then(Cur, i, a[1], a[2]))

\* a foreign thenable invokes, later, one of the callbacks it was handed
CallbackAct(k, c) ==
  /\ k \in 1..Len(lat)
  /\ Becomes(Invoke(Cur, k, c))

MicrotaskAct ==
  /\ mq # <<>>
  /\ Becomes(Microtask(Cur))

ConstructAct(e) == Becomes(Construct(Cur, Executors[e]))

CatchAct(i, c) ==
  /\ Visible(i)
  /\ Becomes(Catch(Cur, i, c))

Init ==
  /\ st = <<>> /\ fl = <<>> /\ rl = <<>> /\ mq = <<>> /\ lat = <<>>
  /\ source = <<>> /\ args = <<>> /\ calls = <<>> /\ runs = <<>> /\ invoked = <<>>
  /\ caught = {} /\ late = 0 /\ exc = NoExc

\* the step stays within the bounds
Fits == Len(st') <= MaxP /\ Len(lat') <= MaxLatch

Next ==
  \/ Len(st) < MaxP /\ DeferredAct /\ Fits
  \/ Len(st) < MaxP /\ \E v \in Promises : StaticResolveAct(v) /\ Fits
  \/ \E i \in 1..MaxP, v \in Values : ResolveAct(i, v) /\ Fits
  \/ \E i \in 1..MaxP, r \in Reasons : RejectAct(i, r) /\ Fits
  \/ Len(st) < MaxP /\ \E i \in 1..MaxP, a \in ThenArgs : ThenAct(i, a) /\ Fits
  \/ \E k \in 1..MaxLatch, c \in CallbackCalls : CallbackAct(k, c) /\ Fits
  \/ MicrotaskAct /\ Fits

Spec == Init /\ [][Next]_vars

FitsUnpack == Len(st') <= MaxUnpackP /\ Len(lat') <= MaxUnpackLatch

NextUnpack ==
  \/ Len(st) < MaxUnpackP /\ DeferredAct /\ FitsUnpack
  \/ \E i \in 1..MaxUnpackP, v \in UnpackValues : ResolveAct(i, v) /\ FitsUnpack
  \/ \E i \in 1..MaxUnpackP, r \in Reasons : RejectAct(i, r) /\ FitsUnpack
  \/ Len(st) < MaxUnpackP /\ \E i \in 1..MaxUnpackP, a \in UnpackThenArgs : ThenAct(i, a) /\ FitsUnpack
  \/ \E k \in 1..MaxUnpackLatch, c \in UnpackCallbackCalls : CallbackAct(k, c) /\ FitsUnpack
  \/ MicrotaskAct /\ FitsUnpack

SpecUnpack == Init /\ [][NextUnpack]_vars

FitsFail == Len(st') <= MaxFailP /\ Len(lat') <= MaxFailLatch

\* No listener exists while fewer than three promises do (then() is not
\* called and adopting a promise allocates one), so no microtask is queued.
NextFail ==
  \/ \E e \in FailExecutors : ConstructAct(e) /\ FitsFail
  \/ Len(st) < MaxFailP /\ DeferredAct /\ FitsFail
  \/ Len(st) < MaxFailP /\ \E r \in FailReasons : StaticRejectAct(r) /\ FitsFail
  \/ \E i \in 1..MaxFailP, v \in FailValues : ResolveAct(i, v) /\ FitsFail
  \/ \E i \in 1..MaxFailP, r \in FailReasons : RejectAct(i, r) /\ FitsFail
  \/ \E k \in 1..MaxFailLatch, c \in CallbackCalls : CallbackAct(k, c) /\ FitsFail

SpecFail == Init /\ [][NextFail]_vars

FitsContain == Len(st') <= MaxContainP /\ Len(lat') <= MaxContainLatch

NextContain ==
  \/ \E e \in FailExecutors : ConstructAct(e) /\ FitsContain
  \/ Len(st) < MaxContainP /\ DeferredAct /\ FitsContain
  \/ Len(st) < MaxContainP /\ \E v \in ContainValues : StaticResolveAct(v) /\ FitsContain
  \/ Len(st) < MaxContainP /\ StaticRejectAct(Plain(2)) /\ FitsContain
  \/ \E i \in 1..MaxContainP, v \in ContainValues : ResolveAct(i, v) /\ FitsContain
  \/ \E i \in 1..MaxContainP : RejectAct(i, Plain(2)) /\ FitsContain
  \/ Len(st) < MaxContainP /\ \E i \in 1..MaxContainP, a \in ContainThenArgs : ThenAct(i, a) /\ FitsContain
  \/ Len(st) < MaxContainP /\ \E i \in 1..MaxContainP : CatchAct(i, Throw(ThrownErr)) /\ FitsContain
  \/ MicrotaskAct /\ FitsContain

SpecContain == Init /\ [][NextContain]_vars

\* No step of NextLive but then() and the constructor allocates.
NextLive ==
  \/ Len(st) < MaxLiveP /\ DeferredAct
  \/ \E i \in 1..MaxLiveP : ResolveAct(i, Plain(1))
  \/ \E i \in 1..MaxLiveP : RejectAct(i, Plain(2))
  \/ Len(st) < MaxLiveP /\ \E i \in 1..MaxLiveP, a \in LiveThenArgs : ThenAct(i, a)
  \/ Len(st) < MaxLiveP /\ \E i \in 1..MaxLiveP : CatchAct(i, Ret(Plain(1)))
  \/ MicrotaskAct

\* the host runs every microtask it has queued
SpecLive == Init /\ [][NextLive]_vars /\ WF_vars(MicrotaskAct)

FitsAdopt == Len(st') <= MaxAdoptP /\ Len(lat') <= MaxAdoptLatch

\* promises resolved with each other and with thenables; the only then() calls
\* are the ones #unpack makes
NextAdopt ==
  \/ Len(st) < MaxAdoptP /\ DeferredAct /\ FitsAdopt
  \/ \E i \in 1..MaxAdoptP, v \in AdoptValues : ResolveAct(i, v) /\ FitsAdopt
  \/ \E k \in 1..MaxAdoptLatch, c \in AdoptCallbackCalls : CallbackAct(k, c) /\ FitsAdopt
  \/ MicrotaskAct /\ FitsAdopt

SpecAdopt == Init /\ [][NextAdopt]_vars

FitsCycle == Len(st') <= MaxCycleP

\* promises resolved with each other, and settled afterwards
NextCycle ==
  \/ Len(st) < MaxCycleP /\ DeferredAct /\ FitsCycle
  \/ \E i \in 1..MaxCycleP, v \in Values : ResolveAct(i, v) /\ FitsCycle
  \/ \E i \in 1..MaxCycleP, r \in Reasons : RejectAct(i, r) /\ FitsCycle
  \/ MicrotaskAct /\ FitsCycle

SpecCycle == Init /\ [][NextCycle]_vars

FitsReact == Len(st') <= MaxReactP

NextReact ==
  \/ Len(st) < MaxReactP /\ DeferredAct /\ FitsReact
  \/ \E i \in 1..MaxReactP : ResolveAct(i, Plain(1)) /\ FitsReact
  \/ \E i \in 1..MaxReactP : RejectAct(i, Plain(2)) /\ FitsReact
  \/ Len(st) < MaxReactP /\ \E i \in 1..MaxReactP, a \in ReactThenArgs : ThenAct(i, a) /\ FitsReact
  \/ Len(st) < MaxReactP /\ \E i \in 1..MaxReactP, c \in ReactCatchArgs : CatchAct(i, c) /\ FitsReact
  \/ MicrotaskAct /\ FitsReact

SpecReact == Init /\ [][NextReact]_vars

----------------------------------------------------------------------------
(* Properties *)

Ids == 1..Len(st)

Settled(i) == st[i].status # "pending"

\* how often the task of the `kind` listener of then-output o is in the microtask queue
InQ(o, kind) == Cardinality({k \in 1..Len(mq) : mq[k].l.out = o /\ mq[k].l.kind = kind})

\* how often the listener of then-output o is in a listener array
InL(ls, o) == Cardinality({k \in 1..Len(ls) : ls[k].out = o})

\* no listener ran in this step
NoReactionRan ==
  /\ \A o \in 1..Len(runs) : runs'[o] = runs[o]
  /\ \A o \in (Len(runs) + 1)..Len(runs') : runs'[o] = NoRuns

\* the callback of then-output o that matches the settlement of its source
Matching(o) == IF st[source[o]].status = "fulfilled" THEN args[o][1] ELSE args[o][2]

\* how often the listener of then-output o that matches the settlement of its source ran
MatchingRuns(o) == IF st[source[o]].status = "fulfilled" THEN runs[o].nF ELSE runs[o].nR

\* C1: once a promise is fulfilled or rejected, no later step (settle call,
\* then, thenable callback, microtask) changes its status or its payload.
SingleAssignment ==
  [][\A i \in 1..Len(st) : st[i].status # "pending" => st'[i] = st[i]]_vars

\* a settled promise that received a further settle call, a then() and whose
\* reaction ran
SingleAssignmentWitness ==
  \E i \in Ids : /\ Settled(i) /\ calls[i].n = 2
                 /\ \E o \in Ids : source[o] = i /\ runs[o] # NoRuns

\* C2: the first settle call on a promise decides its final status and
\* payload, whatever the later settle calls are.
FirstCallDecides ==
  \A i \in Ids : calls[i].n >= 1 =>
    LET c == calls[i].first IN
    /\ c.k = "r" => st[i] = Rejected(c.v)
    /\ c.k = "f" /\ c.v.t = "plain" => st[i] = Fulfilled(c.v)
    /\ c.k = "f" /\ c.v = P(i) => st[i] = Rejected(CycleErr)
    /\ c.k = "f" /\ c.v.t = "P" /\ c.v # P(i) =>
         st[i].status = "pending" \/ st[i] = st[c.v.v]

\* C3: the listeners of a then() call are queued while the source is pending;
\* once the source is settled the listener of the matching kind is either
\* scheduled once or has run once, with the settled payload, and the other
\* listener never runs.
ExactlyOnce ==
  \A o \in Ids : source[o] # 0 =>
    LET i == source[o] IN
    CASE st[i].status = "pending" ->
           /\ runs[o] = NoRuns /\ InQ(o, "F") = 0 /\ InQ(o, "R") = 0
           /\ InL(fl[i], o) = 1 /\ InL(rl[i], o) = 1
      [] st[i].status = "fulfilled" ->
           /\ runs[o].nR = 0 /\ InQ(o, "R") = 0
           /\ runs[o].nF + InQ(o, "F") = 1
           /\ runs[o].nF = 1 => runs[o].arg = st[i].val
           /\ InL(fl[i], o) = 0 /\ InL(rl[i], o) = 0
      [] st[i].status = "rejected" ->
           /\ runs[o].nF = 0 /\ InQ(o, "F") = 0
           /\ runs[o].nR + InQ(o, "R") = 1
           /\ runs[o].nR = 1 => runs[o].arg = st[i].val
           /\ InL(fl[i], o) = 0 /\ InL(rl[i], o) = 0

\* two then() calls on one source, both reactions ran, the queue is drained
ExactlyOnceWitness ==
  \E o1, o2 \in Ids :
    /\ o1 # o2 /\ source[o1] # 0 /\ source[o1] = source[o2]
    /\ MatchingRuns(o1) = 1 /\ MatchingRuns(o2) = 1
    /\ mq = <<>>

\* C4: a listener runs only in a microtask step, never in the step of the
\* then() or of the settle call; the promise a then() call returns is pending
\* and has no reaction run when the step that called then() ends, also when
\* the source is already settled.
Asynchrony ==
  [][/\ NoReactionRan \/ MicrotaskAct
     /\ \A o \in (Len(st) + 1)..Len(st') :
          source'[o] # 0 => st'[o] = PendingState /\ runs'[o] = NoRuns]_vars

\* then() was called on a settled source: the returned promise is pending and
\* its reaction is scheduled, not run
AsynchronyWitness ==
  \E o \in Ids : /\ source[o] # 0 /\ Settled(source[o]) /\ Visible(o)
                 /\ st[o].status = "pending" /\ runs[o] = NoRuns
                 /\ InQ(o, "F") + InQ(o, "R") = 1

\* C5: when a listener runs, every listener of the same kind attached earlier
\* to the same source has already run.
AttachmentOrder ==
  [][mq # <<>> /\ MicrotaskAct =>
       LET t == Head(mq) IN
       \A o1 \in 1..(t.l.out - 1) :
         source[o1] = t.src =>
           (IF t.l.kind = "F" THEN runs[o1].nF ELSE runs[o1].nR) >= 1]_vars

\* two reactions on one source, the first has run and the second is scheduled
AttachmentOrderWitness ==
  \E o1, o2 \in Ids :
    /\ o1 < o2 /\ source[o1] # 0 /\ source[o1] = source[o2]
    /\ MatchingRuns(o1) = 1 /\ runs[o2] = NoRuns
    /\ Settled(source[o1])

\* C6: a promise whose only settle call is resolve(inner), inner another
\* PinkyPromise, is never settled to anything but inner's state, and once
\* inner is settled and the microtask queue is drained it has inner's state.
Adoption ==
  \A o \in Ids :
    (calls[o].n = 1 /\ calls[o].first.k = "f" /\ calls[o].first.v.t = "P"
       /\ calls[o].first.v # P(o)) =>
      LET j == calls[o].first.v.v IN
      /\ Settled(o) => st[o] = st[j]
      /\ Settled(j) /\ mq = <<>> => st[o] = st[j]

\* an outer promise that adopted the fulfilment of its inner promise
AdoptionWitness ==
  \E o \in Ids :
    /\ calls[o].n = 1 /\ calls[o].first.k = "f" /\ calls[o].first.v.t = "P"
    /\ calls[o].first.v # P(o)
    /\ st[o].status = "fulfilled" /\ st[o] = st[calls[o].first.v.v]

\* C7: of the two callbacks handed to a foreign then, only the first
\* invocation acts: on a pending target a first r(x) gives Rejected x and a
\* first f(v), v plain, gives Fulfilled v; no later invocation, from inside
\* then or afterwards, changes the state of the program.
OneShotLatch ==
  /\ \A k \in 1..Len(lat) :
       /\ ~invoked[k].late
       /\ invoked[k].seen /\ invoked[k].pend =>
            LET c == invoked[k].first IN
            /\ lat[k].called
            /\ c.k = "r" => st[lat[k].target] = Rejected(c.v)
            /\ c.k = "f" /\ c.v.t = "plain" => st[lat[k].target] = Fulfilled(c.v)
  /\ \A i \in Ids :
       /\ st[i] # Rejected(Plain(3))
       /\ calls[i].n = 1 /\ calls[i].first = F(T(4)) => st[i] = Fulfilled(Plain(1))
       /\ calls[i].n = 1 /\ calls[i].first = F(T(5)) => st[i] = Rejected(Plain(2))

\* a thenable called f(T(1)) and then r(3) from inside then (script 9); T(1)
\* called back later and its first invocation settled the promise
OneShotLatchWitness ==
  \E k, m \in 1..Len(lat) :
    /\ calls[lat[k].target].n = 1 /\ calls[lat[k].target].first = F(T(9))
    /\ invoked[k].seen /\ invoked[k].first = F(T(1)) /\ invoked[k].pend
    /\ m # k /\ lat[m].target = lat[k].target /\ invoked[m].seen
    /\ Settled(lat[k].target)

\* C8: a promise resolved with itself is rejected with the cycle TypeError:
\* by the settle call, and by the reaction whose callback returned the
\* promise then() returned.
SelfResolutionRejects ==
  /\ \A i \in Ids : calls[i].n >= 1 /\ calls[i].first = F(P(i)) => st[i] = Rejected(CycleErr)
  /\ \A o \in Ids :
       (source[o] # 0 /\ Settled(source[o]) /\ Matching(o) = Self
          /\ (MatchingRuns(o) >= 1 \/ mq = <<>>)) => st[o] = Rejected(CycleErr)

\* both cycles happened
SelfResolutionWitness ==
  /\ \E i \in Ids : calls[i].first = F(P(i)) /\ calls[i].n = 1 /\ st[i] = Rejected(CycleErr)
  /\ \E o \in Ids : source[o] # 0 /\ Matching(o) = Self /\ st[o] = Rejected(CycleErr)

\* C9: a then() without a callable for the kind the source settled with
\* settles the promise it returned with the source's status and payload, as
\* soon as its reaction ran; it ran when the microtask queue is drained.
PassThrough ==
  \A o \in Ids :
    (source[o] # 0 /\ Settled(source[o]) /\ Matching(o) = None
       /\ (MatchingRuns(o) >= 1 \/ mq = <<>>)) => st[o] = st[source[o]]

\* a rejection went through two then() calls without an onrejected callback
PassThroughWitness ==
  \E o \in Ids : /\ source[o] # 0 /\ source[source[o]] # 0
                 /\ args[o][2] = None /\ args[source[o]][2] = None
                 /\ st[o].status = "rejected" /\ st[o] = st[source[source[o]]]

\* C10: a callable callback matching the settlement is called once, with the
\* source's payload, and the promise then() returned is settled by #unpack of
\* what it returned: fulfilled with a plain value, following a returned
\* PinkyPromise, handed to the then of a returned thenable.
ChainCallback ==
  \A o \in Ids :
    (source[o] # 0 /\ Settled(source[o]) /\ Matching(o).c = "ret"
       /\ (MatchingRuns(o) >= 1 \/ mq = <<>>)) =>
      LET w == Matching(o).v IN
      /\ MatchingRuns(o) = 1 /\ runs[o].arg = st[source[o]].val
      /\ w.t = "plain" => st[o] = Fulfilled(w)
      /\ w.t = "P" => /\ Settled(o) => st[o] = st[w.v]
                      /\ Settled(w.v) /\ mq = <<>> => st[o] = st[w.v]
      /\ w.t = "T" => /\ \E k \in 1..Len(lat) : lat[k].target = o
                      /\ Settled(o) => \A k \in 1..Len(lat) : lat[k].target = o => lat[k].called

\* an onrejected callback returned a plain value
ChainCallbackWitness ==
  \E o \in Ids : /\ source[o] # 0 /\ st[source[o]].status = "rejected"
                 /\ args[o][2] = Ret(Plain(1)) /\ runs[o].nR = 1
                 /\ st[o] = Fulfilled(Plain(1))

\* C11: when the callback run by a reaction throws e, the promise then()
\* returned is rejected with e, the callback ran once, and the microtask
\* throws nothing.
ReactionFailure ==
  /\ exc = NoExc
  /\ \A o \in Ids :
       (source[o] # 0 /\ Settled(source[o]) /\ Matching(o).c = "throw"
          /\ (MatchingRuns(o) >= 1 \/ mq = <<>>)) =>
         /\ MatchingRuns(o) = 1
         /\ st[o] = Rejected(Matching(o).v)

\* an onfulfilled callback threw and an onrejected callback threw
ReactionFailureWitness ==
  /\ \E o \in Ids : /\ source[o] # 0 /\ args[o][1] = Throw(ThrownErr)
                     /\ runs[o].nF = 1 /\ st[o] = Rejected(ThrownErr)
  /\ \E o \in Ids : /\ source[o] # 0 /\ args[o][2] = Throw(ThrownErr)
                     /\ runs[o].nR = 1 /\ st[o] = Rejected(ThrownErr)

\* C12: catch(onrejected) does to the program what then(undefined, onrejected)
\* does; on a rejected source onrejected is called once with the reason and
\* its result settles the returned promise, on a fulfilled source the returned
\* promise is fulfilled with the value and onrejected is not called.
CatchIsThen ==
  /\ [](\A o \in caught :
         LET i == source[o]
             cb == args[o][2]
         IN /\ (st[i].status = "rejected" /\ (runs[o].nR >= 1 \/ mq = <<>>)) =>
                 /\ runs[o].nR = 1 /\ runs[o].nF = 0 /\ runs[o].arg = st[i].val
                 /\ cb.c = "ret" => st[o] = Fulfilled(cb.v)
                 /\ cb.c = "throw" => st[o] = Rejected(cb.v)
                 /\ cb.c = "none" => st[o] = st[i]
            /\ (st[i].status = "fulfilled" /\ (runs[o].nF >= 1 \/ mq = <<>>)) =>
                 /\ runs[o].nR = 0
                 /\ st[o] = st[i])
  /\ [][caught' # caught =>
          \E o \in caught' \ caught :
            /\ args'[o][1] = None
            /\ <<st', fl', rl', mq', lat'>> = Prog(Then(Cur, source'[o], None, args'[o][2]))]_vars

\* catch() on a source rejected later and on a source already rejected: the
\* callback got the reason and its result fulfilled the returned promise;
\* catch() on a fulfilled source passed the value through
CatchIsThenWitness ==
  /\ \E o \in caught : /\ st[source[o]] = Rejected(Plain(2)) /\ args[o][2] = Ret(Plain(1))
                        /\ runs[o].nR = 1 /\ runs[o].arg = Plain(2)
                        /\ st[o] = Fulfilled(Plain(1))
  /\ \E o \in caught : /\ st[source[o]] = Fulfilled(Plain(1)) /\ args[o][2] = Ret(Plain(1))
                        /\ runs[o].nF = 1 /\ st[o] = Fulfilled(Plain(1))

\* C13: an executor that throws e while its promise is pending leaves it
\* rejected with e; a throw after the executor settled the promise is
\* swallowed and the settlement stands; the constructor returns normally.
ExecutorFailure ==
  /\ [](\A p \in Ids : calls[p].threw =>
         /\ calls[p].n = 0 => st[p] = Rejected(ThrownErr)
         /\ calls[p].first = F(T(1)) => st[p] = Rejected(ThrownErr)
         /\ calls[p].first = F(Plain(1)) => st[p] = Fulfilled(Plain(1))
         /\ calls[p].first = R(Plain(2)) => st[p] = Rejected(Plain(2)))
  /\ [][Len(st') > Len(st) => exc' = NoExc]_vars

\* the executor fulfilled its promise and threw afterwards
ExecutorFailureWitness ==
  \E p \in Ids : /\ calls[p].threw /\ calls[p].first = F(Plain(1))
                 /\ st[p] = Fulfilled(Plain(1))

\* C14: the constructor called with something that is not callable throws a
\* TypeError to its caller; no promise is created and nothing is scheduled.
ConstructionFailure ==
  [][exc' # NoExc => exc' = TypeErr /\ UNCHANGED progvars]_vars

\* C15: resolving a pending promise with undefined, a primitive or an object
\* without a callable then fulfils it with that value within the call.
PlainValueResolution ==
  \A i \in Ids :
    (calls[i].n >= 1 /\ calls[i].first.k = "f"
       /\ calls[i].first.v.t \in {"undef", "plain", "O"}) =>
      st[i] = Fulfilled(calls[i].first.v)

\* a promise fulfilled with an object whose then is not callable
PlainValueResolutionWitness ==
  \E i \in Ids : calls[i].first = F(NoThenObject) /\ st[i] = Fulfilled(NoThenObject)

\* C16: a reject call on a pending promise rejects it with exactly the reason
\* within the call, also when the reason is a PinkyPromise or a thenable; the
\* then of the reason is neither read nor called.
RejectionNeverUnwraps ==
  /\ \A i \in Ids :
       calls[i].n >= 1 /\ calls[i].first.k = "r" => st[i] = Rejected(calls[i].first.v)
  /\ \A k \in 1..Len(lat) : calls[lat[k].target].first.k = "f"

\* a promise rejected with a thenable whose then would have fulfilled it
RejectionNeverUnwrapsWitness ==
  \E i \in Ids : /\ calls[i].first = R(T(2)) /\ st[i] = Rejected(T(2))
                 /\ lat = <<>>

\* C19: a throwing then getter rejects the promise with the thrown error; so
\* does a then that throws before it called a callback; a throw after a
\* callback was called is ignored: the promise has what the callback gave it
\* and is pending as long as the thenable it passed has not called back.
ThenableFailure ==
  \A i \in Ids : calls[i].n = 1 =>
    LET c == calls[i].first IN
    /\ c = F(GetterThrows) => st[i] = Rejected(ThrownErr)
    /\ c = F(T(6)) => st[i] = Rejected(ThrownErr)
    /\ c = F(T(7)) => st[i] = Fulfilled(Plain(1))
    /\ c = F(T(8)) =>
         /\ st[i] \in {PendingState, Fulfilled(Plain(1)), Rejected(Plain(2))}
         /\ st[i] = PendingState <=>
              \E k \in 1..Len(lat) : lat[k].target = i /\ ~lat[k].called

\* then called resolvePromise with a pending thenable and threw: the promise
\* is still pending
ThenableFailureWitness ==
  \E i \in Ids : calls[i].n = 1 /\ calls[i].first = F(T(8)) /\ st[i] = PendingState

EveryEntryInvokedOnce ==
  \A o \in Ids :
    (source[o] # 0 /\ Settled(source[o]) /\ mq = <<>>) =>
      runs[o].nF = 1 /\ runs[o].nR = 1

\* o is the output of a then() call whose source is settled
Due(o) ==
  IF o \in Ids THEN (IF source[o] # 0 THEN Settled(source[o]) ELSE FALSE) ELSE FALSE

\* the entry of then-output o that matches the settlement of its source ran once
Ran(o) == IF Due(o) THEN MatchingRuns(o) = 1 ELSE FALSE

\* C18, amended: of the two entries a then() call appends, the one in the
\* array matching the settlement is scheduled when the source settles, or by
\* the then() call itself on a settled source, and is eventually invoked,
\* exactly once; the entry in the other array is never invoked.
MatchingEntryInvokedOnce ==
  /\ [](\A o \in Ids : source[o] # 0 =>
         /\ runs[o].nF + runs[o].nR <= 1
         /\ Settled(source[o]) =>
              /\ MatchingRuns(o) + InQ(o, "F") + InQ(o, "R") = 1
              /\ MatchingRuns(o) = runs[o].nF + runs[o].nR)
  /\ \A o \in 1..MaxLiveP : Due(o) ~> Ran(o)

\* a source with a then() before it settled and a then() after: both matching
\* entries were invoked once, the other two never
MatchingEntryInvokedOnceWitness ==
  \E o1, o2 \in Ids :
    /\ o1 # o2 /\ source[o1] # 0 /\ source[o1] = source[o2]
    /\ st[source[o1]].status = "rejected"
    /\ runs[o1].nR = 1 /\ runs[o1].nF = 0 /\ runs[o2].nR = 1 /\ runs[o2].nF = 0

\* C20: in every state between two units of work a fulfilled or rejected
\* promise has both listener arrays empty.
QueueDrain ==
  \A i \in Ids : Settled(i) => fl[i] = <<>> /\ rl[i] = <<>>

\* a settled promise with two then() calls, one reaction has run and the other
\* is scheduled: its arrays are empty
QueueDrainWitness ==
  \E o1, o2 \in Ids :
    /\ o1 < o2 /\ source[o1] # 0 /\ source[o1] = source[o2] /\ Settled(source[o1])
    /\ MatchingRuns(o1) = 1 /\ InQ(o2, "F") + InQ(o2, "R") = 1
    /\ fl[source[o1]] = <<>> /\ rl[source[o1]] = <<>>

\* C21 as stated: no then() or catch() call pushes a listener on an array of
\* a promise that is already fulfilled or rejected.
NoLateAppend == late = 0

\* C21, amended: between two units of work only a pending promise has
\* listeners in its arrays; a then() or catch() call on a settled promise does
\* push its two listeners, and before it returns #notify has scheduled the
\* matching one and cleared both arrays.
AppendThenDrain ==
  /\ \A i \in Ids : fl[i] # <<>> \/ rl[i] # <<>> => st[i].status = "pending"
  /\ late # 0 =>
       /\ late = Len(st) /\ source[late] # 0 /\ Settled(source[late])
       /\ st[late] = PendingState /\ runs[late] = NoRuns
       /\ mq # <<>> /\ mq[Len(mq)].l.out = late /\ mq[Len(mq)].src = source[late]
       /\ mq[Len(mq)].l.kind = (IF st[source[late]].status = "fulfilled" THEN "F" ELSE "R")
       /\ InQ(late, "F") + InQ(late, "R") = 1

\* catch() was just called on a rejected promise: its listener is the last
\* microtask queued and the arrays of the promise are empty
AppendThenDrainWitness ==
  /\ late # 0 /\ late \in caught
  /\ st[source[late]].status = "rejected"
  /\ fl[source[late]] = <<>> /\ rl[source[late]] = <<>>
  /\ InQ(late, "R") = 1

\* the reaction of then-output o is in the microtask queue
Scheduled(o) == IF o \in Ids THEN InQ(o, "F") + InQ(o, "R") >= 1 ELSE FALSE

\* then-output o is settled
Derived(o) == IF Due(o) THEN Settled(o) ELSE FALSE

\* s is the beginning of t
IsPrefix(s, t) == Len(s) <= Len(t) /\ \A k \in 1..Len(s) : t[k] = s[k]

\* C22: the microtask queue is FIFO and loses nothing: a step only appends to
\* it, or runs its head and appends; under a fair host every scheduled
\* reaction eventually runs, and once the source is settled the promise
\* returned by a then() or catch() whose matching callback is absent, returns
\* a plain value or throws is eventually settled.
ScheduledRuns ==
  /\ [][\/ IsPrefix(mq, mq') /\ NoReactionRan
        \/ /\ mq # <<>> /\ IsPrefix(Tail(mq), mq')
           /\ LET t == Head(mq) IN
              (IF t.l.kind = "F" THEN runs'[t.l.out].nF = runs[t.l.out].nF + 1
                                 ELSE runs'[t.l.out].nR = runs[t.l.out].nR + 1)]_vars
  /\ \A o \in 1..MaxLiveP : Scheduled(o) ~> Ran(o)
  /\ \A o \in 1..MaxLiveP : Due(o) ~> Derived(o)

\* a source with three derived promises, all settled: one by a pass-through,
\* one by a callback that returned, one by a callback that threw
ScheduledRunsWitness ==
  \E o \in Ids :
    /\ source[o] # 0 /\ st[source[o]].status = "rejected" /\ mq = <<>>
    /\ Matching(o) = Throw(ThrownErr) /\ st[o] = Rejected(ThrownErr)
    /\ \E o1 \in Ids : source[o1] = source[o] /\ Matching(o1) = None /\ Settled(o1)

\* C23: of the two listeners one then() call pushes, at most one ever runs:
\* none while the source is pending, never the rejection listener of a
\* fulfilled source, never the fulfilment listener of a rejected source.
KindExclusivity ==
  \A o \in Ids : source[o] # 0 =>
    /\ runs[o].nF = 0 \/ runs[o].nR = 0
    /\ st[source[o]].status = "pending" => runs[o].nF = 0 /\ runs[o].nR = 0
    /\ st[source[o]].status = "fulfilled" => runs[o].nR = 0
    /\ st[source[o]].status = "rejected" => runs[o].nF = 0

\* then() calls with two callbacks, one on a fulfilled and one on a rejected
\* source; the matching callback of each ran and the queue is drained
KindExclusivityWitness ==
  \E o1, o2 \in Ids :
    /\ source[o1] # 0 /\ source[o2] # 0 /\ mq = <<>>
    /\ args[o1][1].c \notin {"none", "unpackInto"} /\ args[o1][2].c # "none"
    /\ args[o2][1].c \notin {"none", "unpackInto"} /\ args[o2][2].c # "none"
    /\ st[source[o1]].status = "fulfilled" /\ runs[o1].nF = 1
    /\ st[source[o2]].status = "rejected" /\ runs[o2].nR = 1

\* C24: no promise is ever fulfilled with a PinkyPromise or with a thenable:
\* the value of a fulfilled promise is what the resolution procedure found at
\* the end of the chain of promises and thenables.
FullUnwrapping ==
  \A i \in Ids : st[i].status = "fulfilled" => st[i].val.t \notin {"P", "T"}

\* one promise resolved with a thenable that passed a second thenable, which
\* passed a plain value; another promise resolved with the first one; both are
\* fulfilled with the plain value
FullUnwrappingWitness ==
  \E i, j \in Ids :
    /\ i # j /\ Visible(i) /\ Visible(j)
    /\ calls[i].n = 1 /\ calls[i].first.k = "f" /\ calls[i].first.v.t = "T"
    /\ Cardinality({k \in 1..Len(lat) : lat[k].target = i}) = 2
    /\ calls[j].n = 1 /\ calls[j].first = F(P(i))
    /\ st[i] = Fulfilled(Plain(1)) /\ st[j] = Fulfilled(Plain(1))

\* a was resolved with b and b with a, and no other settle call was made on
\* either
Cycle(a, b) ==
  /\ a # b
  /\ calls[a].n = 1 /\ calls[a].first = F(P(b))
  /\ calls[b].n = 1 /\ calls[b].first = F(P(a))

\* the two resolve calls of an indirect cycle reject nothing and schedule
\* nothing: both promises are pending, each holds the listeners of the other
CycleUndetected ==
  \A a, b \in Ids : Cycle(a, b) =>
    /\ st[a] = PendingState /\ st[b] = PendingState
    /\ \A k \in 1..Len(mq) : mq[k].src \notin {a, b} /\ source[mq[k].l.out] \notin {a, b}
    /\ Len(fl[a]) = 1 /\ fl[a][1].cb = UnpackInto(b)
    /\ Len(rl[a]) = 1 /\ rl[a][1].cb = RejectInto(b)

\* C25: after pending a was resolved with pending b and b with a, no rejection
\* is fabricated, no task is scheduled, and a and b stay pending unless a
\* direct reject call settles one of them.
IndirectCycle ==
  /\ []CycleUndetected
  /\ [][\A a, b \in Ids :
          Cycle(a, b) /\ (st'[a] # st[a] \/ st'[b] # st[b]) =>
            \/ calls'[a].n = 2 /\ \E r \in Reasons : st'[a] = Rejected(r)
            \/ calls'[b].n = 2 /\ \E r \in Reasons : st'[b] = Rejected(r)]_vars

\* C26: a then() or catch() call changes the state of no existing promise and
\* runs nothing; running a reaction changes the state of no promise but the
\* output of its own then() call, leaves the source as it was, counts as a run
\* of that reaction only, and leaves the reactions queued behind it in the
\* queue, in their order, whether or not its callback throws.
ReactionIsolation ==
  [][/\ Len(st') > Len(st) /\ source'[Len(st')] # 0 =>
          /\ \A i \in Ids : st'[i] = st[i]
          /\ NoReactionRan
     /\ mq # <<>> /\ ~NoReactionRan =>
          LET t == Head(mq) IN
          /\ \A i \in Ids : i # t.l.out => st'[i] = st[i] /\ runs'[i] = runs[i]
          /\ st'[t.src] = st[t.src]
          /\ IsPrefix(Tail(mq), mq')
          /\ \A k \in Len(mq)..Len(mq') : mq'[k].src = t.l.out]_vars

\* two reactions on one rejected source: the callback of the first threw, the
\* second ran after it and fulfilled its own output; the source is unchanged
ReactionIsolationWitness ==
  \E o1, o2 \in Ids :
    /\ o1 < o2 /\ source[o1] # 0 /\ source[o1] = source[o2]
    /\ st[source[o1]] = Rejected(Plain(2))
    /\ args[o1][2] = Throw(ThrownErr) /\ runs[o1].nR = 1 /\ st[o1] = Rejected(ThrownErr)
    /\ args[o2][2] = Ret(Plain(1)) /\ runs[o2].nR = 1 /\ st[o2] = Fulfilled(Plain(1))

====
